---- MODULE Spec2Model ----
(***************************************************************************)
(* Model of rlapi/player.py: the value objects Playlist, SeasonRewards and *)
(* Player built from the raw records of an API payload.                    *)
(*                                                                         *)
(* A Python dict is a function from the set of its present keys to values;  *)
(* an absent key is a key outside DOMAIN.  Optional[...] values are records *)
(* [some, val].  Floats are scaled integers: sigma is in thousandths.       *)
(* The caller's playlist records are mutable objects: they live in `heap`   *)
(* and are referred to by identity, so that the pop() of add_playlist is    *)
(* visible to the caller and to later calls.                                *)
(***************************************************************************)
EXTENDS Integers, Sequences, FiniteSets, TLC

VARIABLES
    heap,      \* the caller's playlist record objects: record id -> dict
    payload,   \* the caller's raw player record (data of Player.__init__)
    player,    \* the Player most recently returned by construction, if any
    last,      \* the most recent call: operation, arguments as passed, outcome
    used,      \* ids of the record objects a successful add_playlist consumed
    input,     \* arguments of a stand-alone Playlist / SeasonRewards construction
    obj,       \* the stand-alone object constructed from `input`, if any
    out        \* the result of str(obj), if rendered

vars == <<heap, payload, player, last, used, input, obj, out>>

-----------------------------------------------------------------------------
(* Bounds of the model *)

NumRecs == 2      \* record objects the caller holds
MaxSkills == 2    \* longest player_skills list
MaxIdx == 21      \* stand-alone tiers range over -MaxIdx..MaxIdx
MaxDiv == 5       \* stand-alone divisions range over -MaxDiv..MaxDiv
MaxLevel == 8     \* stand-alone reward levels range over 0..MaxLevel

-----------------------------------------------------------------------------
(* Python values *)

EmptyDict == << >>

None == [some |-> FALSE, val |-> 0]

Some(v) == [some |-> TRUE, val |-> v]

\* dict.get(k, default)
Get(d, k, default) == IF k \in DOMAIN d THEN d[k] ELSE default

\* d[k] = v
Put(d, k, v) == [x \in DOMAIN d \cup {k} |-> IF x = k THEN v ELSE d[x]]

\* the dict left by d.pop(k) when k is present
Pop(d, k) == [x \in DOMAIN d \ {k} |-> d[x]]

\* t[i] raises IndexError exactly when this is false
IndexOk(t, i) == -Len(t) <= i /\ i < Len(t)

\* t[i] for a tuple t, negative i counting from the end
Index(t, i) == IF i >= 0 THEN t[i + 1] ELSE t[Len(t) + i + 1]

\* Max taking the smallest element
Max_min(S, default) ==
    IF S = {} THEN default ELSE CHOOSE m \in S : \A n \in S : m <= n

\* max(iterable, default=default) over integers
Max(S, default) ==
    IF S = {} THEN default ELSE CHOOSE m \in S : \A n \in S : n <= m

-----------------------------------------------------------------------------
(* Module constants *)

RANKS ==
    << "Unranked",
       "Bronze I", "Bronze II", "Bronze III",
       "Silver I", "Silver II", "Silver III",
       "Gold I", "Gold II", "Gold III",
       "Platinum I", "Platinum II", "Platinum III",
       "Diamond I", "Diamond II", "Diamond III",
       "Champion I", "Champion II", "Champion III",
       "Grand Champion" >>

DIVISIONS == << "I", "II", "III", "IV" >>

-----------------------------------------------------------------------------
(* External collaborators (rlapi/enums.py, rlapi/tier_estimates.py) *)

\* The integers the PlaylistKey enumeration has a member for.
PlaylistKeyValues == {10, 11}

\* PlaylistKey(v) raises ValueError exactly when this is false
IsPlaylistKey(v) == v \in PlaylistKeyValues

\* A playlist identifier is an enumeration member or a raw integer.
PlaylistKey(v) == [enum |-> TRUE, value |-> v]

RawKey(v) == [enum |-> FALSE, value |-> v]

\* The estimates object is opaque: only the playlist it was built for is kept.
TierEstimates(tier, division) == [of_tier |-> tier, of_division |-> division]

-----------------------------------------------------------------------------
(* class Playlist *)

DefaultTier == 0
DefaultDivision == 0
DefaultMu == 25
DefaultSigma == 8333
DefaultTierMax == 19

\* PlaylistInit forcing tier into 0..tier_max
PlaylistInit_clamped(breakdown, playlist_key, data) ==
    LET mu == Get(data, "mu", DefaultMu)
        tier_max == Get(data, "tier_max", DefaultTierMax)
        raw_tier == Get(data, "tier", DefaultTier)
        tier == IF raw_tier > tier_max THEN tier_max
                ELSE IF raw_tier < 0 THEN 0 ELSE raw_tier
        division == Get(data, "division", DefaultDivision)
    IN  [ key            |-> playlist_key,
          tier           |-> tier,
          division       |-> division,
          mu             |-> mu,
          skill          |-> Get(data, "skill", mu * 20 + 100),
          sigma          |-> Get(data, "sigma", DefaultSigma),
          win_streak     |-> Get(data, "win_streak", 0),
          matches_played |-> Get(data, "matches_played", 0),
          tier_max       |-> tier_max,
          breakdown      |-> IF breakdown # None THEN breakdown.val ELSE EmptyDict,
          tier_estimates |-> TierEstimates(tier, division) ]

PlaylistInit(breakdown, playlist_key, data) ==
    LET mu == Get(data, "mu", DefaultMu)
        tier == Get(data, "tier", DefaultTier)
        division == Get(data, "division", DefaultDivision)
    IN  [ key            |-> playlist_key,
          tier           |-> tier,
          division       |-> division,
          mu             |-> mu,
          skill          |-> Get(data, "skill", mu * 20 + 100),
          sigma          |-> Get(data, "sigma", DefaultSigma),
          win_streak     |-> Get(data, "win_streak", 0),
          matches_played |-> Get(data, "matches_played", 0),
          tier_max       |-> Get(data, "tier_max", DefaultTierMax),
          breakdown      |-> IF breakdown # None THEN breakdown.val ELSE EmptyDict,
          tier_estimates |-> TierEstimates(tier, division) ]

\* PlaylistStr that drops the division only for tier 0
PlaylistStr_zero_only(self) ==
    IF self.tier = 0
    THEN Index(RANKS, self.tier)
    ELSE IF IndexOk(RANKS, self.tier) /\ IndexOk(DIVISIONS, self.division)
         THEN Index(RANKS, self.tier) \o " Div " \o Index(DIVISIONS, self.division)
         ELSE "Unknown"

PlaylistStr(self) ==
    IF self.tier \in {0, self.tier_max}
    THEN IF IndexOk(RANKS, self.tier)
         THEN Index(RANKS, self.tier)
         ELSE "Unknown"
    ELSE IF IndexOk(RANKS, self.tier) /\ IndexOk(DIVISIONS, self.division)
         THEN Index(RANKS, self.tier) \o " Div " \o Index(DIVISIONS, self.division)
         ELSE "Unknown"

-----------------------------------------------------------------------------
(* class SeasonRewards *)

\* SeasonRewardsInit comparing with <= in place of <
SeasonRewardsInit_le(highest_tier, data) ==
    LET raw_level == Get(data, "level", Some(0))
        level == IF raw_level = None THEN 0 ELSE raw_level.val
        raw_wins == Get(data, "wins", Some(0))
        wins == IF raw_wins = None THEN 0 ELSE raw_wins.val
    IN  [ level        |-> level,
          wins         |-> wins,
          reward_ready |-> IF level = 0 \/ level * 3 <= highest_tier
                           THEN TRUE
                           ELSE FALSE ]

SeasonRewardsInit(highest_tier, data) ==
    LET raw_level == Get(data, "level", Some(0))
        level == IF raw_level = None THEN 0 ELSE raw_level.val
        raw_wins == Get(data, "wins", Some(0))
        wins == IF raw_wins = None THEN 0 ELSE raw_wins.val
    IN  [ level        |-> level,
          wins         |-> wins,
          reward_ready |-> IF level = 0 \/ level * 3 < highest_tier
                           THEN TRUE
                           ELSE FALSE ]

-----------------------------------------------------------------------------
(* class Player *)

\* The state add_playlist leaves: whether pop() raised KeyError, the Player's
\* playlists, the caller's records and the records consumed.
AddResult(raised, playlists, h, consumed) ==
    [raised |-> raised, playlists |-> playlists, heap |-> h, consumed |-> consumed]

\* ResolveKey that wraps every integer as an enumeration member
ResolveKey_always(raw) == PlaylistKey(raw)

\* contextlib.suppress(ValueError): playlist_key = PlaylistKey(playlist_key)
ResolveKey(raw) == IF IsPlaylistKey(raw) THEN PlaylistKey(raw) ELSE RawKey(raw)

\* add_playlist that keeps an entry already present (setdefault)
add_playlist_keep(playlists, tier_breakdown, h, r) ==
    IF "playlist" \notin DOMAIN h[r]
    THEN AddResult(TRUE, playlists, h, {})
    ELSE LET raw == h[r]["playlist"]
             data == Pop(h[r], "playlist")
             breakdown == Get(tier_breakdown, raw, EmptyDict)
             playlist_key == ResolveKey(raw)
         IN  AddResult(FALSE,
                       IF playlist_key \in DOMAIN playlists
                       THEN playlists
                       ELSE Put(playlists, playlist_key,
                                PlaylistInit(Some(breakdown), playlist_key, data)),
                       [h EXCEPT ![r] = data],
                       {r})

\* add_playlist with pop("playlist", 0): a missing field is identifier 0
add_playlist_default(playlists, tier_breakdown, h, r) ==
    LET raw == Get(h[r], "playlist", 0)
        data == Pop(h[r], "playlist")
        breakdown == Get(tier_breakdown, raw, EmptyDict)
        playlist_key == ResolveKey(raw)
    IN  AddResult(FALSE,
                  Put(playlists, playlist_key,
                      PlaylistInit(Some(breakdown), playlist_key, data)),
                  [h EXCEPT ![r] = data],
                  {r})

\* add_playlist reading the field without removing it
add_playlist_nopop(playlists, tier_breakdown, h, r) ==
    IF "playlist" \notin DOMAIN h[r]
    THEN AddResult(TRUE, playlists, h, {})
    ELSE LET raw == h[r]["playlist"]
             data == h[r]
             breakdown == Get(tier_breakdown, raw, EmptyDict)
             playlist_key == ResolveKey(raw)
         IN  AddResult(FALSE,
                       Put(playlists, playlist_key,
                           PlaylistInit(Some(breakdown), playlist_key, data)),
                       h,
                       {r})

\* self.add_playlist(playlist), playlist being the record object r of heap h
add_playlist(playlists, tier_breakdown, h, r) ==
    IF "playlist" \notin DOMAIN h[r]
    THEN AddResult(TRUE, playlists, h, {})
    ELSE LET raw == h[r]["playlist"]
             data == Pop(h[r], "playlist")
             breakdown == Get(tier_breakdown, raw, EmptyDict)
             playlist_key == ResolveKey(raw)
         IN  AddResult(FALSE,
                       Put(playlists, playlist_key,
                           PlaylistInit(Some(breakdown), playlist_key, data)),
                       [h EXCEPT ![r] = data],
                       {r})

\* self._prepare_playlists(player_skills): the loop stops at the first KeyError
RECURSIVE _prepare_playlists(_, _, _, _)
_prepare_playlists(playlists, tier_breakdown, h, player_skills) ==
    IF player_skills = << >>
    THEN AddResult(FALSE, playlists, h, {})
    ELSE LET first == add_playlist(playlists, tier_breakdown, h, Head(player_skills))
         IN  IF first.raised
             THEN first
             ELSE LET rest == _prepare_playlists(first.playlists, tier_breakdown,
                                                 first.heap, Tail(player_skills))
                  IN  AddResult(rest.raised, rest.playlists, rest.heap,
                                first.consumed \cup rest.consumed)

\* the tiers of the Playlists a playlists mapping holds
Tiers(playlists) == { playlists[k].tier : k \in DOMAIN playlists }

NoPlayer == [exists |-> FALSE]

\* Player(tier_breakdown=..., platform=..., data=...) with the records of heap h:
\* the constructed Player (when nothing raised) and the heap it leaves
PlayerInit(tier_breakdown, platform, data, h) ==
    LET user_name == Get(data, "user_name", "")
        player_id == Get(data, "user_id", user_name)
        player_skills == Get(data, "player_skills", << >>)
        breakdowns == IF tier_breakdown # None THEN tier_breakdown.val ELSE EmptyDict
        prepared == _prepare_playlists(EmptyDict, breakdowns, h, player_skills)
        highest_tier == Max(Tiers(prepared.playlists), 0)
        season_rewards == Get(data, "season_rewards", EmptyDict)
    IN  [ raised   |-> prepared.raised,
          heap     |-> prepared.heap,
          consumed |-> prepared.consumed,
          self     |-> [ exists         |-> TRUE,
                         platform       |-> platform,
                         user_name      |-> user_name,
                         player_id      |-> player_id,
                         playlists      |-> prepared.playlists,
                         tier_breakdown |-> breakdowns,
                         highest_tier   |-> highest_tier,
                         season_rewards |-> SeasonRewardsInit(highest_tier,
                                                              season_rewards) ] ]

\* self.get_playlist(playlist_key): self.playlists.get(playlist_key)
get_playlist(self, playlist_key) ==
    IF playlist_key \in DOMAIN self.playlists
    THEN Some(self.playlists[playlist_key])
    ELSE None

-----------------------------------------------------------------------------
(* Inputs *)

RecIds == 1 .. NumRecs

\* Playlist records of a payload; the first has no `playlist` field.
RecordValues ==
    { ("tier" :> 3),
      ("playlist" :> 11),
      ("playlist" :> 10) @@ ("tier" :> 3) @@ ("division" :> 2) @@ ("tier_max" :> 3),
      ("playlist" :> 10) @@ ("tier" :> 20) @@ ("mu" :> 30) @@ ("win_streak" :> 4),
      ("playlist" :> 9999) @@ ("tier" :> 7) @@ ("tier_max" :> 5) @@ ("skill" :> 650)
                           @@ ("sigma" :> 2500) @@ ("matches_played" :> 12) }

\* player_skills lists: record objects by identity, repeats allowed
SkillLists == UNION { [1 .. n -> RecIds] : n \in 0 .. MaxSkills }

\* The fields of a raw player record other than player_skills.
PayloadRest ==
    { EmptyDict,
      ("user_name" :> "Alice") @@ ("user_id" :> "76561198000000000")
          @@ ("season_rewards" :> (("level" :> Some(1)) @@ ("wins" :> None))) }

Payloads ==
    PayloadRest \cup { rest @@ ("player_skills" :> s) : rest \in PayloadRest, s \in SkillLists }

Breakdown == (1 :> <<0, 100>>)

\* The keyword arguments of Player(...) besides data: without a tier
\* breakdown, and with one for a known and an unrecognised identifier.
ConstructorArgs ==
    { [platform |-> "steam", tier_breakdown |-> None],
      [platform |-> "ps4",
       tier_breakdown |-> Some((10 :> Breakdown) @@ (9999 :> Breakdown))] }

LookupKeys == {PlaylistKey(10), RawKey(9999), RawKey(42)}

\* Stand-alone constructions
Call(kind, data, key, highest_tier) ==
    [kind |-> kind, data |-> data, key |-> key, highest_tier |-> highest_tier]

NoInput == Call("none", EmptyDict, RawKey(0), 0)

TierMaxValues == {3, 19, MaxIdx}

PlaylistInputs ==
    { Call("Playlist", ("tier" :> t) @@ ("division" :> d) @@ m, PlaylistKey(10), 0) :
        t \in -MaxIdx .. MaxIdx, d \in -MaxDiv .. MaxDiv,
        m \in {EmptyDict} \cup { ("tier_max" :> x) : x \in TierMaxValues } }

LevelValues == {None} \cup { Some(l) : l \in 0 .. MaxLevel }

RewardInputs ==
    { Call("SeasonRewards", lv @@ w, RawKey(0), ht) :
        lv \in {EmptyDict} \cup { ("level" :> l) : l \in LevelValues },
        w \in {EmptyDict, ("wins" :> None), ("wins" :> Some(5))},
        ht \in 0 .. MaxIdx }

NoObject == [kind |-> "none"]

NoCall == [op |-> "none", raised |-> FALSE]

-----------------------------------------------------------------------------
(* The state machine *)

InitPlayerCase ==
    /\ heap \in [RecIds -> RecordValues]
    /\ payload \in Payloads
    /\ input = NoInput

InitValueCase ==
    /\ heap = << >>
    /\ payload = EmptyDict
    /\ input \in PlaylistInputs \cup RewardInputs

Init ==
    /\ InitPlayerCase \/ InitValueCase
    /\ player = NoPlayer
    /\ last = NoCall
    /\ used = {}
    /\ obj = NoObject
    /\ out = ""

\* player = Player(tier_breakdown=..., platform=..., data=payload)
Construct ==
    /\ input = NoInput
    /\ \E args \in ConstructorArgs :
          LET res == PlayerInit(args.tier_breakdown, args.platform, payload, heap)
          IN  /\ heap' = res.heap
              /\ used' = used \cup res.consumed
              /\ player' = IF res.raised THEN player ELSE res.self
              /\ last' = [op |-> "Player", raised |-> res.raised,
                          heap |-> heap, used |-> used, args |-> args]
    /\ UNCHANGED <<payload, input, obj, out>>

\* AddPlaylist that recomputes highest_tier after the insertion
AddPlaylist_recompute ==
    /\ player # NoPlayer
    /\ \E r \in RecIds :
          LET res == add_playlist(player.playlists, player.tier_breakdown, heap, r)
          IN  /\ heap' = res.heap
              /\ used' = used \cup res.consumed
              /\ player' = [player EXCEPT
                              !.playlists = res.playlists,
                              !.highest_tier = Max(Tiers(res.playlists), 0)]
              /\ last' = [op |-> "add_playlist", raised |-> res.raised,
                          heap |-> heap, used |-> used, rec |-> r]
    /\ UNCHANGED <<payload, input, obj, out>>

\* player.add_playlist(heap[r])
AddPlaylist ==
    /\ player # NoPlayer
    /\ \E r \in RecIds :
          LET res == add_playlist(player.playlists, player.tier_breakdown, heap, r)
          IN  /\ heap' = res.heap
              /\ used' = used \cup res.consumed
              /\ player' = [player EXCEPT !.playlists = res.playlists]
              /\ last' = [op |-> "add_playlist", raised |-> res.raised,
                          heap |-> heap, used |-> used, rec |-> r]
    /\ UNCHANGED <<payload, input, obj, out>>

\* player.get_playlist(k)
GetPlaylist ==
    /\ player # NoPlayer
    /\ \E k \in LookupKeys :
          last' = [op |-> "get_playlist", raised |-> FALSE,
                   key |-> k, ret |-> get_playlist(player, k)]
    /\ UNCHANGED <<heap, payload, player, used, input, obj, out>>

\* obj = Playlist(playlist_key=input.key, data=input.data)
NewPlaylist ==
    /\ input.kind = "Playlist"
    /\ obj = NoObject
    /\ obj' = [kind |-> "Playlist", self |-> PlaylistInit(None, input.key, input.data)]
    /\ UNCHANGED <<heap, payload, player, last, used, input, out>>

\* out = str(obj)
Str ==
    /\ obj.kind = "Playlist"
    /\ out = ""
    /\ out' = PlaylistStr(obj.self)
    /\ UNCHANGED <<heap, payload, player, last, used, input, obj>>

\* obj = SeasonRewards(highest_tier=input.highest_tier, data=input.data)
NewSeasonRewards ==
    /\ input.kind = "SeasonRewards"
    /\ obj = NoObject
    /\ obj' = [kind |-> "SeasonRewards",
               self |-> SeasonRewardsInit(input.highest_tier, input.data)]
    /\ UNCHANGED <<heap, payload, player, last, used, input, out>>

Next ==
    \/ Construct
    \/ AddPlaylist
    \/ GetPlaylist
    \/ NewPlaylist
    \/ Str
    \/ NewSeasonRewards

Spec == Init /\ [][Next]_vars

-----------------------------------------------------------------------------
(* Properties *)

\* data.get("player_skills", []) of the caller's payload
Skills == Get(payload, "player_skills", << >>)

\* C1: a Player that construction returns has highest_tier equal to the
\* largest tier among the Playlists its `playlists` holds when construction
\* ends (an overwritten duplicate does not count), and 0 when player_skills
\* is absent or empty.
C1_HighestTierIsMax ==
    (last.op = "Player" /\ ~last.raised) =>
        /\ Tiers(player.playlists) # {} =>
              /\ player.highest_tier \in Tiers(player.playlists)
              /\ \A t \in Tiers(player.playlists) : t <= player.highest_tier
        /\ Tiers(player.playlists) = {} => player.highest_tier = 0
        /\ Skills = << >> => player.playlists = EmptyDict /\ player.highest_tier = 0

\* A construction whose second record overwrote a first record of a higher tier.
C1_Witness ==
    /\ last.op = "Player" /\ ~last.raised
    /\ Len(Skills) = 2
    /\ Cardinality(DOMAIN player.playlists) = 1
    /\ Get(last.heap[Skills[1]], "tier", 0) > player.highest_tier
    /\ player.highest_tier > 0

\* level as the claim takes it: the record's `level`, 0 when absent or null
LevelOf(data) ==
    IF "level" \in DOMAIN data /\ data["level"].some THEN data["level"].val ELSE 0

\* C2: a constructed SeasonRewards has reward_ready true exactly when
\* level = 0 or level * 3 < highest_tier (level being the record's level, 0
\* when absent or null); for the SeasonRewards a Player owns, highest_tier is
\* the Player's highest_tier.
C2_RewardReady ==
    /\ obj.kind = "SeasonRewards" =>
          /\ obj.self.level = LevelOf(input.data)
          /\ obj.self.reward_ready =
                (LevelOf(input.data) = 0 \/ LevelOf(input.data) * 3 < input.highest_tier)
    /\ player # NoPlayer =>
          LET data == Get(payload, "season_rewards", EmptyDict)
          IN  /\ player.season_rewards.level = LevelOf(data)
              /\ player.season_rewards.reward_ready =
                    (LevelOf(data) = 0 \/ LevelOf(data) * 3 < player.highest_tier)

\* A Player whose non-zero reward level is behind its highest tier.
C2_Witness ==
    /\ player # NoPlayer
    /\ player.season_rewards.level > 0
    /\ player.season_rewards.reward_ready
    /\ player.highest_tier = 7

\* The Playlist add_playlist builds from record contents rec for a Player
\* with the given tier_breakdown.
Built(tier_breakdown, rec) ==
    PlaylistInit(Some(Get(tier_breakdown, rec["playlist"], EmptyDict)),
                 ResolveKey(rec["playlist"]), Pop(rec, "playlist"))

\* The records of player_skills as they were when the last call started.
SkillRecs(h) == [i \in DOMAIN Skills |-> h[Skills[i]]]

\* The position of the most recent record of recs that resolves to key k.
LastFor(recs, k) ==
    CHOOSE i \in DOMAIN recs :
        /\ ResolveKey(recs[i]["playlist"]) = k
        /\ \A j \in DOMAIN recs : ResolveKey(recs[j]["playlist"]) = k => j <= i

C3_Constructed ==
    (last.op = "Player" /\ ~last.raised) =>
        LET recs == SkillRecs(last.heap)
            keys == { ResolveKey(recs[i]["playlist"]) : i \in DOMAIN recs }
        IN  /\ DOMAIN player.playlists = keys
            /\ \A k \in keys :
                  player.playlists[k] =
                      Built(player.tier_breakdown, recs[LastFor(recs, k)])

C3_Added ==
    (last'.op = "add_playlist" /\ ~last'.raised) =>
        LET rec == heap[last'.rec]
            k == ResolveKey(rec["playlist"])
        IN  /\ DOMAIN player'.playlists = DOMAIN player.playlists \cup {k}
            /\ player'.playlists[k] = Built(player.tier_breakdown, rec)
            /\ \A j \in DOMAIN player.playlists \ {k} :
                  player'.playlists[j] = player.playlists[j]

C3_Got ==
    last'.op = "get_playlist" =>
        /\ ~last'.raised
        /\ player' = player
        /\ last'.key \in DOMAIN player.playlists =>
              last'.ret = Some(player.playlists[last'.key])
        /\ last'.key \notin DOMAIN player.playlists => last'.ret = None

\* C3: construction and every later add_playlist leave `playlists` with one
\* entry per distinct resolved identifier, each holding the Playlist built
\* from the most recent record that resolved to it; get_playlist(k) returns
\* that Playlist, or None when no record resolved to k, and neither raises
\* nor changes the Player.
C3_LatestRecordWins == [][C3_Constructed' /\ C3_Added /\ C3_Got]_vars

\* A lookup that found the one Playlist two records of the same identifier left.
C3_Witness ==
    /\ player # NoPlayer
    /\ Len(Skills) = 2
    /\ Cardinality(DOMAIN player.playlists) = 1
    /\ last.op = "get_playlist"
    /\ last.ret # None

\* The facts C4 states of an unrecognised identifier raw in playlists.
StoredRaw(playlists, raw) ==
    /\ RawKey(raw) \in DOMAIN playlists
    /\ playlists[RawKey(raw)].key = RawKey(raw)
    /\ PlaylistKey(raw) \notin DOMAIN playlists

\* C4: add_playlist with a record whose `playlist` is an integer outside the
\* PlaylistKey enumeration does not fail; the Playlist is stored under the
\* raw integer, its key attribute is the raw integer, and get_playlist with
\* that raw integer returns it.
C4_UnknownKeyKeptRaw ==
    [][ /\ ( /\ last'.op = "add_playlist"
             /\ "playlist" \in DOMAIN heap[last'.rec]
             /\ ~IsPlaylistKey(heap[last'.rec]["playlist"]) ) =>
               LET raw == heap[last'.rec]["playlist"]
               IN  /\ ~last'.raised
                   /\ StoredRaw(player'.playlists, raw)
                   /\ get_playlist(player', RawKey(raw)) =
                         Some(player'.playlists[RawKey(raw)])
        /\ (last'.op = "Player" /\ ~last'.raised) =>
               \A i \in DOMAIN Skills :
                   LET raw == heap[Skills[i]]["playlist"]
                   IN  ~IsPlaylistKey(raw) =>
                          /\ StoredRaw(player'.playlists, raw)
                          /\ get_playlist(player', RawKey(raw)) =
                                Some(player'.playlists[RawKey(raw)])
      ]_vars

\* add_playlist has just stored a record whose identifier is 9999.
C4_Witness ==
    /\ last.op = "add_playlist" /\ ~last.raised
    /\ last.heap[last.rec]["playlist"] = 9999
    /\ RawKey(9999) \in DOMAIN player.playlists

ValidTiers == 0 .. Len(RANKS) - 1

ValidDivisions == 0 .. Len(DIVISIONS) - 1

\* C5: a Playlist whose tier lies outside 0..19 or whose division lies outside
\* 0..3, negative values included, renders as "Unknown".
C5_OutOfRangeIsUnknown ==
    (obj.kind = "Playlist" /\ out # "") =>
        ((obj.self.tier \notin ValidTiers \/ obj.self.division \notin ValidDivisions)
            => out = "Unknown")

\* C6: a Playlist with tier in 0..19 and division in 0..3 renders as the bare
\* rank name RANKS[tier] when tier is 0 or tier_max, and as RANKS[tier],
\* " Div " and DIVISIONS[division] otherwise.
C6_RankString ==
    (obj.kind = "Playlist" /\ out # ""
        /\ obj.self.tier \in ValidTiers /\ obj.self.division \in ValidDivisions) =>
        /\ (obj.self.tier = 0 \/ obj.self.tier = obj.self.tier_max) =>
              out = RANKS[obj.self.tier + 1]
        /\ ~(obj.self.tier = 0 \/ obj.self.tier = obj.self.tier_max) =>
              out = RANKS[obj.self.tier + 1] \o " Div " \o DIVISIONS[obj.self.division + 1]
        /\ (obj.self.tier = 16 /\ obj.self.division = 2 /\ obj.self.tier_max = 19) =>
              out = "Champion I Div III"
        /\ (obj.self.tier = 19 /\ obj.self.tier_max = 19) => out = "Grand Champion"

\* Tier 16, division 2 has been rendered.
C6_Witness ==
    /\ obj.kind = "Playlist"
    /\ obj.self.tier = 16 /\ obj.self.division = 2
    /\ out = "Champion I Div III"

InTierRange(p) == 0 <= p.tier /\ p.tier <= p.tier_max

\* C7 as stated: every Playlist construction produces, and every Playlist a
\* Player holds, has 0 <= tier <= tier_max whatever the record supplies.
C7_TierWithinMax ==
    /\ obj.kind = "Playlist" => InTierRange(obj.self)
    /\ player # NoPlayer =>
          \A k \in DOMAIN player.playlists : InTierRange(player.playlists[k])

\* A Playlist carries the record's tier and tier_max, defaults 0 and 19.
CopiesTier(p, data) ==
    /\ p.tier = Get(data, "tier", 0)
    /\ p.tier_max = Get(data, "tier_max", 19)
    /\ InTierRange(p) <=>
          (0 <= Get(data, "tier", 0) /\ Get(data, "tier", 0) <= Get(data, "tier_max", 19))

\* C7 amended: a Playlist's tier and tier_max are the record's `tier` (0 when
\* absent) and `tier_max` (19 when absent), copied without validation, so
\* 0 <= tier <= tier_max holds of the Playlist exactly when it holds of those
\* values.
C7_TierCopiedUnvalidated ==
    [][ /\ obj'.kind = "Playlist" => CopiesTier(obj'.self, input'.data)
        /\ (last'.op = "add_playlist" /\ ~last'.raised) =>
               LET rec == heap[last'.rec]
               IN  CopiesTier(player'.playlists[ResolveKey(rec["playlist"])], rec)
        /\ (last'.op = "Player" /\ ~last'.raised) =>
               \A k \in DOMAIN player'.playlists :
                   \E i \in DOMAIN Skills :
                       /\ ResolveKey(heap[Skills[i]]["playlist"]) = k
                       /\ CopiesTier(player'.playlists[k], heap[Skills[i]])
      ]_vars

\* add_playlist has just stored a Playlist whose tier exceeds its tier_max.
C7_Witness ==
    /\ last.op = "add_playlist" /\ ~last.raised
    /\ \E k \in DOMAIN player.playlists :
          /\ k = ResolveKey(last.heap[last.rec]["playlist"])
          /\ player.playlists[k].tier > player.playlists[k].tier_max

\* C8: add_playlist with a record that has no `playlist` field raises
\* KeyError and leaves the Player as it was; constructing a Player whose
\* player_skills holds such a record raises KeyError and returns no Player.
C8_MissingKeyRaises ==
    [][ /\ ( /\ last'.op = "add_playlist"
             /\ "playlist" \notin DOMAIN heap[last'.rec] ) =>
               /\ last'.raised
               /\ player' = player
        /\ ( /\ last'.op = "Player"
             /\ \E i \in DOMAIN Skills : "playlist" \notin DOMAIN heap[Skills[i]] ) =>
               /\ last'.raised
               /\ player' = player
      ]_vars

\* add_playlist has just raised on a Player that holds playlists.
C8_Witness ==
    /\ last.op = "add_playlist" /\ last.raised
    /\ last.rec \notin last.used
    /\ player # NoPlayer
    /\ player.playlists # EmptyDict

\* C9: an add_playlist after construction changes nothing of the Player but
\* the `playlists` entry of the resolved key, so highest_tier and
\* season_rewards are not recomputed.
C9_AddChangesOneEntry ==
    [][ last'.op = "add_playlist" =>
          /\ player'.exists
          /\ player'.highest_tier = player.highest_tier
          /\ player'.season_rewards = player.season_rewards
          /\ player'.user_name = player.user_name
          /\ player'.player_id = player.player_id
          /\ player'.platform = player.platform
          /\ player'.tier_breakdown = player.tier_breakdown
          /\ DOMAIN player.playlists \subseteq DOMAIN player'.playlists
          /\ \A k \in DOMAIN player'.playlists :
                \/ /\ k \in DOMAIN player.playlists
                   /\ player'.playlists[k] = player.playlists[k]
                \/ /\ ~last'.raised
                   /\ k = ResolveKey(heap[last'.rec]["playlist"])
      ]_vars

\* After an add_playlist, highest_tier is below the largest tier held.
C9_Witness ==
    /\ last.op = "add_playlist" /\ ~last.raised
    /\ \E t \in Tiers(player.playlists) : t > player.highest_tier
    /\ player.season_rewards.level > 0
    /\ ~player.season_rewards.reward_ready

\* C10: a successful add_playlist removes exactly the `playlist` field from
\* the caller's record and leaves its other fields and the other records as
\* they were; the Playlist is built from the record so reduced; a later
\* add_playlist of the same record object, and a construction from a payload
\* holding it, raise KeyError.
C10_RecordLosesPlaylistField ==
    [][ /\ (last'.op = "add_playlist" /\ ~last'.raised) =>
               LET r == last'.rec
                   k == ResolveKey(heap[r]["playlist"])
               IN  /\ DOMAIN heap'[r] = DOMAIN heap[r] \ {"playlist"}
                   /\ \A f \in DOMAIN heap'[r] : heap'[r][f] = heap[r][f]
                   /\ \A q \in RecIds \ {r} : heap'[q] = heap[q]
                   /\ player'.playlists[k] =
                         PlaylistInit(Some(Get(player.tier_breakdown, heap[r]["playlist"],
                                               EmptyDict)), k, heap'[r])
        /\ (last'.op = "add_playlist" /\ last'.rec \in used) => last'.raised
        /\ (last'.op = "Player" /\ \E i \in DOMAIN Skills : Skills[i] \in used) =>
               last'.raised
        /\ \A r \in used' : "playlist" \notin DOMAIN heap'[r]
      ]_vars

\* A second construction from a payload whose records the first consumed.
C10_Witness ==
    /\ last.op = "Player" /\ last.raised
    /\ Skills # << >>
    /\ \A i \in DOMAIN Skills : Skills[i] \in last.used
    /\ player # NoPlayer
    /\ Cardinality(DOMAIN player.playlists) = Len(Skills)

====
